---- MODULE Spec2Model ----
(***************************************************************************)
(* GitCheckpoints (src/gitcheckpoints.py): a Jupyter checkpoints backend   *)
(* that drives git.  The model keeps, for a small set of notebook paths,   *)
(* the working file, the git index entry and the commit history, and has   *)
(* one action per public method of the class.  Every method is translated  *)
(* command by command; the git commands themselves are modelled by what    *)
(* git does to (work, index, history) and by whether they exit nonzero.    *)
(*                                                                         *)
(* File contents are the numbers in Contents; 0 stands for "no such file"     *)
(* (in the working tree, in the index, or in a commit's tree).  Time is    *)
(* logical: a commit's date is its position in the history, and the clock  *)
(* read by utcnow() stands at the date of the newest commit.               *)
(***************************************************************************)
EXTENDS Integers, Sequences, FiniteSets, TLC

\* Bounds of the model.
MaxCommits == 1          \* commits made on top of the initial one
MaxMaxCheckpoints == 1   \* max_checkpoints is configured in 1..MaxMaxCheckpoints
MaxLimit == 1            \* explicit limits passed to list_checkpoints

Paths == {"a", "b"}
Min(x, y) == IF x < y THEN x ELSE y
\* File contents.  Three are enough for the working file, the staged entry
\* and the committed version of one path to differ pairwise.
Contents == 1..3

VARIABLES
    create_commits,   \* config trait, fixed at construction
    max_checkpoints,  \* config trait, fixed at construction
    inRepo,           \* inRepo[p]: p's directory lies in a git repository with commits
    work,             \* work[p]: content of the file in the working tree
    index,            \* index[p]: content staged for p
    history,          \* the commits, oldest first; a commit's id is its position
    copies,           \* the file-copy checkpoints of the base class FileCheckpoints
    created,          \* created[p]: checkpoints create_checkpoint made of changed content
    call              \* the last public call: arguments, git commands issued, outcome

vars == <<create_commits, max_checkpoints, inRepo, work, index, history, copies, created, call>>

----------------------------------------------------------------------------
\* Checkpoint ids.
HashId(n) == [kind |-> "hash", n |-> n]
HEAD == [kind |-> "HEAD", n |-> 0]
Sentinel == [kind |-> "--", n |-> 0]
FileId == [kind |-> "checkpoint", n |-> 0]
NoneId == [kind |-> "None", n |-> 0]
BadId == [kind |-> "bad", n |-> 0]

NoLimit == <<>>
Limits == {NoLimit} \cup {<<n>> : n \in (-1)..MaxLimit}

----------------------------------------------------------------------------
\* git, as far as the class uses it.  A command yields [ok, out]: ok is
\* "exit status 0" and out the lines of its output.
Fail == [ok |-> FALSE, out |-> <<>>]
Ok(out) == [ok |-> TRUE, out |-> out]

HeadTree(h) == h[Len(h)].tree

\* The author date of commit i, and the clock.
Date(h, i) == i
utcnow(h) == Len(h)

\* Commit i changed path p.
Touches(h, i, p) ==
    IF i = 1 THEN h[1].tree[p] # 0 ELSE h[i].tree[p] # h[i - 1].tree[p]

\* The commits that changed p, newest first, at most n of them, from commit i down.
RECURSIVE LogFrom(_, _, _, _)
LogFrom(h, p, i, n) ==
    IF i = 0 \/ n = 0 THEN <<>>
    ELSE IF Touches(h, i, p) THEN <<i>> \o LogFrom(h, p, i - 1, n - 1)
    ELSE LogFrom(h, p, i - 1, n)

\* A plain file name argument must exist in the working tree, or git exits 128
\* ("ambiguous argument"); outside a repository every command exits 128.
NameOk(p) == inRepo[p] /\ work[p] # 0

\* git log -1 --oneline <name>
GitLogOneline(p, h) ==
    IF NameOk(p) THEN Ok(LogFrom(h, p, Len(h), 1)) ELSE Fail

\* git diff <name>: working tree against index; an untracked file shows nothing.
GitDiff(p, idx) ==
    IF NameOk(p) THEN Ok(IF idx[p] # 0 /\ work[p] # idx[p] THEN <<1>> ELSE <<>>)
    ELSE Fail

\* git add <name>
GitAdd(p) == IF NameOk(p) THEN Ok(<<>>) ELSE Fail
AddIndex(p, idx) == [idx EXCEPT ![p] = work[p]]

\* git commit -m ... -o <name>: commits the working content of this path alone;
\* exits 1 when that is what HEAD already holds.
GitCommit(p, h) ==
    IF inRepo[p] /\ work[p] # HeadTree(h)[p] THEN Ok(<<>>) ELSE Fail
\* A commit that rewrites the newest snapshot (git commit --amend).
CommitHistory_amend(p, h) ==
    [h EXCEPT ![Len(h)] = [tree |-> [HeadTree(h) EXCEPT ![p] = work[p]]]]
CommitHistory(p, h) ==
    Append(h, [tree |-> [HeadTree(h) EXCEPT ![p] = work[p]]])

\* git log --format=%H -<n> <name>; "-%i" % n with n < 0 is "--1", which git rejects.
GitLog(p, n, h) ==
    IF NameOk(p) /\ n >= 0 THEN Ok(LogFrom(h, p, Len(h), n)) ELSE Fail

\* git status -s <name>: a line when the index differs from HEAD or the file
\* from the index (M, MM, D, ??).
GitStatus(p, h, idx) ==
    IF inRepo[p]
    THEN Ok(IF idx[p] # HeadTree(h)[p] \/ work[p] # idx[p] THEN <<1>> ELSE <<>>)
    ELSE Fail

\* Revision lookup.
Resolves(id, h) == id = HEAD \/ (id.kind = "hash" /\ id.n \in 1..Len(h))
Rev(id, h) == IF id = HEAD THEN Len(h) ELSE id.n

\* git log -1 --date=iso --format=%ad <id>, run in the file's directory.
GitLogDate(id, p, h) ==
    IF inRepo[p] /\ Resolves(id, h) THEN Ok(<<Date(h, Rev(id, h))>>) ELSE Fail

\* git checkout <id> <name>: "--" restores the file from the index, a revision
\* writes that commit's version to index and file; the path must be known there.
CheckoutSource(id, p, h, idx) ==
    IF id = Sentinel THEN idx[p]
    ELSE IF Resolves(id, h) THEN h[Rev(id, h)].tree[p]
    ELSE 0
GitCheckout(id, p, h, idx) ==
    IF inRepo[p] /\ CheckoutSource(id, p, h, idx) # 0 THEN Ok(<<>>) ELSE Fail

\* git rm <name>: refuses when the path is not in the index, has staged
\* changes or local modifications.
GitRm(p, h, idx) ==
    IF /\ inRepo[p]
       /\ idx[p] # 0
       /\ idx[p] = HeadTree(h)[p]
       /\ work[p] \in {0, idx[p]}
    THEN Ok(<<>>) ELSE Fail

----------------------------------------------------------------------------
\* GitCheckpoints._git: returns the output, or raises.  The handler of
\* CalledProcessError logs the local `out`, which is unbound when
\* check_output raised, so what leaves _git is an UnboundLocalError.
_git(r) ==
    IF r.ok THEN [exc |-> "", out |-> r.out]
    ELSE [exc |-> "UnboundLocalError", out |-> <<>>]

\* GitCheckpoints._in_git: False on CalledProcessError, True on success; any
\* other exception passes through.
_in_git(p, h) ==
    LET r == _git(GitLogOneline(p, h))
    IN  IF r.exc = "CalledProcessError" THEN [exc |-> "", val |-> FALSE]
        ELSE IF r.exc # "" THEN [exc |-> r.exc, val |-> FALSE]
        ELSE [exc |-> "", val |-> TRUE]

\* dateutil's parse of git's ISO date: the same instant, whole seconds.
parse_date(out) == out[1]

NoRec == [id |-> NoneId, last_modified |-> 0]

\* GitCheckpoints.checkpoint_model
checkpoint_model(id, p, h) ==
    IF id = Sentinel
    THEN [exc |-> "", rec |-> [id |-> id, last_modified |-> utcnow(h)], cmds |-> <<>>]
    ELSE LET r == _git(GitLogDate(id, p, h))
         IN  IF r.exc # ""
             THEN [exc |-> r.exc, rec |-> NoRec, cmds |-> <<"log -1 --format=%ad">>]
             ELSE [exc |-> "",
                   rec |-> [id |-> id, last_modified |-> parse_date(r.out)],
                   cmds |-> <<"log -1 --format=%ad">>]

\* A default limit that is one too large.
EffectiveLimit_off(limit) ==
    IF limit = NoLimit \/ limit[1] = 0 THEN max_checkpoints + 1 ELSE limit[1]

\* limit = limit or self.max_checkpoints: None and 0 are both falsy.
EffectiveLimit(limit) ==
    IF limit = NoLimit \/ limit[1] = 0 THEN max_checkpoints ELSE limit[1]

RECURSIVE Flatten(_)
Flatten(ss) == IF ss = <<>> THEN <<>> ELSE Head(ss) \o Flatten(Tail(ss))

\* The staging area listed after the commits (append instead of insert(0, ...)).
ListedIds_append(hashes, status) ==
    [i \in 1..Len(hashes) |-> HashId(hashes[i])]
        \o (IF status # <<>> THEN <<Sentinel>> ELSE <<>>)

\* The ids list_checkpoints resolves: git log's hashes, with "--" inserted in
\* front when git status (run only if not create_commits) prints something.
ListedIds(hashes, status) ==
    (IF status # <<>> THEN <<Sentinel>> ELSE <<>>)
        \o [i \in 1..Len(hashes) |-> HashId(hashes[i])]

\* GitCheckpoints.list_checkpoints, on history h and index idx.
list_checkpoints(p, limit, h, idx) ==
    LET log == _git(GitLog(p, EffectiveLimit(limit), h))
        st == IF create_commits THEN [exc |-> "", out |-> <<>>]
              ELSE _git(GitStatus(p, h, idx))
        stcmd == IF create_commits THEN <<>> ELSE <<"status">>
        ids == ListedIds(log.out, st.out)
        models == [i \in 1..Len(ids) |-> checkpoint_model(ids[i], p, h)]
        bad == {i \in 1..Len(ids) : models[i].exc # ""}
        cmds == <<"log">> \o stcmd \o Flatten([i \in 1..Len(ids) |-> models[i].cmds])
    IN  IF log.exc # "" THEN [exc |-> log.exc, recs |-> <<>>, cmds |-> <<"log">>]
        ELSE IF st.exc # "" THEN [exc |-> st.exc, recs |-> <<>>, cmds |-> <<"log">> \o stcmd]
        ELSE IF bad # {}
        THEN [exc |-> "UnboundLocalError", recs |-> <<>>, cmds |-> cmds]
        ELSE [exc |-> "", recs |-> [i \in 1..Len(ids) |-> models[i].rec], cmds |-> cmds]

----------------------------------------------------------------------------
\* What a public call leaves behind for the caller.
Call(op, p, id, limit, cmds, exc, recs) ==
    [op |-> op, path |-> p, id |-> id, limit |-> limit,
     cmds |-> cmds, exc |-> exc, recs |-> recs]

\* No call has returned since the file was last written.
Idle == Call("", "", NoneId, NoLimit, <<>>, "", <<>>)

config == <<create_commits, max_checkpoints, inRepo>>

Init ==
    /\ create_commits \in BOOLEAN
    /\ max_checkpoints \in 1..MaxMaxCheckpoints
    /\ inRepo \in [Paths -> BOOLEAN]
    /\ inRepo["a"]
    /\ work = [p \in Paths |-> 1]
    /\ \E tracked \in [Paths -> BOOLEAN] :
          /\ tracked["a"]
          /\ \A p \in Paths : tracked[p] => inRepo[p]
          /\ index = [p \in Paths |-> IF tracked[p] THEN 1 ELSE 0]
          /\ history = <<[tree |-> index]>>
    /\ copies = [p \in Paths |-> 0]
    /\ created = [p \in Paths |-> 0]
    /\ call = Idle

\* The notebook server writes the file.
Save(p, c) ==
    /\ c # work[p]
    /\ work' = [work EXCEPT ![p] = c]
    /\ call' = Idle
    /\ UNCHANGED <<config, index, history, copies, created>>

\* GitCheckpoints.create_checkpoint
create_checkpoint(p) ==
    LET probe == _in_git(p, history)
        diff == _git(GitDiff(p, index))
        add == _git(GitAdd(p))
        idx1 == AddIndex(p, index)
        commit == _git(GitCommit(p, history))
        h1 == CommitHistory(p, history)
        lst == list_checkpoints(p, <<1>>, h1, idx1)
        head == checkpoint_model(HEAD, p, history)
        sent == checkpoint_model(Sentinel, p, history)
        c1 == <<"log -1 --oneline">>
        c2 == c1 \o <<"diff">>
        c3 == c2 \o <<"add">>
        c4 == c3 \o <<"commit">>
        Ret(cmds, exc, recs) == call' = Call("create", p, NoneId, NoLimit, cmds, exc, recs)
        Count == created' = [created EXCEPT ![p] = Min(created[p] + 1, max_checkpoints)]
    IN
    /\ UNCHANGED <<config, work>>
    /\ IF probe.exc # ""
       THEN Ret(c1, probe.exc, <<>>) /\ UNCHANGED <<index, history, copies, created>>
       ELSE IF ~probe.val
       THEN \* super().create_checkpoint: FileCheckpoints copies the file
            /\ Ret(c1, "", <<[id |-> FileId, last_modified |-> utcnow(history)]>>)
            /\ copies' = [copies EXCEPT ![p] = work[p]]
            /\ UNCHANGED <<index, history, created>>
       ELSE IF diff.exc # ""
       THEN Ret(c2, diff.exc, <<>>) /\ UNCHANGED <<index, history, copies, created>>
       ELSE IF diff.out = <<>>
       THEN /\ Ret(c2 \o head.cmds, head.exc, IF head.exc = "" THEN <<head.rec>> ELSE <<>>)
            /\ UNCHANGED <<index, history, copies, created>>
       ELSE IF add.exc # ""
       THEN Ret(c3, add.exc, <<>>) /\ UNCHANGED <<index, history, copies, created>>
       ELSE IF ~create_commits
       THEN /\ Ret(c3, "", <<sent.rec>>)
            /\ index' = idx1
            /\ Count
            /\ UNCHANGED <<history, copies>>
       ELSE IF commit.exc # ""
       THEN /\ Ret(c4, commit.exc, <<>>)
            /\ index' = idx1
            /\ UNCHANGED <<history, copies, created>>
       ELSE /\ Len(history) <= MaxCommits
            /\ index' = idx1
            /\ history' = h1
            /\ Count
            /\ UNCHANGED copies
            /\ IF lst.exc # "" THEN Ret(c4 \o lst.cmds, lst.exc, <<>>)
               ELSE IF lst.recs = <<>> THEN Ret(c4 \o lst.cmds, "IndexError", <<>>)
               ELSE Ret(c4 \o lst.cmds, "", <<lst.recs[1]>>)

\* GitCheckpoints.list_checkpoints, called by the server
ListCheckpoints(p, limit) ==
    LET r == list_checkpoints(p, limit, history, index)
    IN  /\ call' = Call("list", p, NoneId, limit, r.cmds, r.exc, r.recs)
        /\ UNCHANGED <<config, work, index, history, copies, created>>

\* GitCheckpoints.restore_checkpoint
restore_checkpoint(id, p) ==
    LET r == _git(GitCheckout(id, p, history, index))
        src == CheckoutSource(id, p, history, index)
    IN  /\ call' = Call("restore", p, id, NoLimit, <<"checkout">>, r.exc, <<>>)
        /\ IF r.exc = ""
           THEN /\ work' = [work EXCEPT ![p] = src]
                /\ index' = [index EXCEPT ![p] = src]
           ELSE UNCHANGED <<work, index>>
        /\ UNCHANGED <<config, history, copies, created>>

\* GitCheckpoints.rename_checkpoint: git rm of the old path, no commit.  The
\* already converted OS path goes through _get_os_path a second time inside
\* _git; `resolves` says whether that second conversion still names the
\* file's directory (it does when root_dir is "/"), else check_output finds
\* no such working directory.
rename_checkpoint(id, old, new, resolves) ==
    LET r == _git(GitRm(old, history, index))
        exc == IF resolves THEN r.exc ELSE "FileNotFoundError"
    IN  /\ call' = Call("rename", old, NoneId, NoLimit, <<"rm">>, exc, <<>>)
        /\ IF exc = ""
           THEN /\ work' = [work EXCEPT ![old] = 0]
                /\ index' = [index EXCEPT ![old] = 0]
           ELSE UNCHANGED <<work, index>>
        /\ UNCHANGED <<config, history, copies, created>>

\* GitCheckpoints.rename_all_checkpoints
rename_all_checkpoints(old, new, resolves) ==
    rename_checkpoint(NoneId, old, new, resolves)

\* A delete that unstages the file when handed the staging-area id.
delete_checkpoint_unstage(id, p) ==
    IF id = Sentinel /\ inRepo[p]
    THEN /\ call' = Call("delete", p, NoneId, NoLimit, <<"reset">>, "", <<>>)
         /\ index' = [index EXCEPT ![p] = HeadTree(history)[p]]
         /\ UNCHANGED <<config, work, history, copies, created>>
    ELSE /\ call' = Call("delete", p, NoneId, NoLimit, <<>>, "RuntimeError", <<>>)
         /\ UNCHANGED <<config, work, index, history, copies, created>>

\* GitCheckpoints.delete_checkpoint
delete_checkpoint(id, p) ==
    /\ call' = Call("delete", p, NoneId, NoLimit, <<>>, "RuntimeError", <<>>)
    /\ UNCHANGED <<config, work, index, history, copies, created>>

\* The ids a caller may hold.
Ids == {HEAD, Sentinel, BadId} \cup {HashId(n) : n \in 1..Len(history)}

Next ==
    \/ \E p \in Paths, c \in Contents : Save(p, c)
    \/ \E p \in Paths : create_checkpoint(p)
    \/ \E p \in Paths, limit \in Limits : ListCheckpoints(p, limit)
    \/ \E p \in Paths, id \in Ids : restore_checkpoint(id, p)
    \/ \E old \in Paths, new \in Paths, resolves \in BOOLEAN :
          new # old /\ rename_checkpoint(HEAD, old, new, resolves)
    \/ \E old \in Paths, new \in Paths, resolves \in BOOLEAN :
          new # old /\ rename_all_checkpoints(old, new, resolves)
    \/ \E p \in Paths, id \in Ids : delete_checkpoint(id, p)

Spec == Init /\ [][Next]_vars

----------------------------------------------------------------------------
\* Properties.

HeadOf(p) == HeadTree(history)[p]
Tracked(p) == inRepo[p] /\ index[p] # 0
Returned(op) == call.op = op /\ call.exc = ""

\* C1: delete_checkpoint raises (RuntimeError, the Forbidden error) whatever the
\* id and the path, and leaves the working file, the index, the history and the
\* file-copy checkpoints as they were.
C1_DeleteForbidden ==
    [][call'.op = "delete" =>
          /\ call'.exc = "RuntimeError"
          /\ call'.cmds = <<>>
          /\ UNCHANGED <<work, index, history, copies>>]_vars

\* delete_checkpoint was called on a path whose staged content differs from HEAD.
C1_Witness ==
    /\ call.op = "delete"
    /\ call.exc = "RuntimeError"
    /\ Tracked(call.path)
    /\ index[call.path] # HeadOf(call.path)

\* C2: two create_checkpoint calls in a row on a tracked path, the file not
\* written in between, return the same record, and the second adds no commit.
C2_CreateIdempotent ==
    [][(/\ Returned("create")
        /\ Tracked(call.path)
        /\ call'.op = "create"
        /\ call'.path = call.path
        /\ call'.exc = ""
        /\ work' = work)
       => (call'.recs = call.recs /\ history' = history)]_vars

\* The newest records of a default listing are exactly max_checkpoints commits
\* that changed the path, newest first, none of the newer ones left out.
RetentionWindow ==
    LET p == call.path
        r == call.recs
        m == max_checkpoints
    IN  /\ Len(r) = m
        /\ \A i \in 1..m :
              /\ r[i].id.kind = "hash"
              /\ r[i].id.n \in 1..Len(history)
              /\ Touches(history, r[i].id.n, p)
        /\ \A i \in 1..(m - 1) :
              /\ r[i].id.n > r[i + 1].id.n
              /\ r[i].last_modified >= r[i + 1].last_modified
        /\ \A j \in 1..Len(history) :
              (Touches(history, j, p) /\ j > r[m].id.n) => \E i \in 1..m : r[i].id.n = j

DefaultListing == Returned("list") /\ call.limit = NoLimit

C4_RoundTrip ==
    [][(/\ Returned("create")
        /\ Tracked(call.path)
        /\ call'.op = "restore"
        /\ call'.path = call.path
        /\ call'.id = call.recs[1].id)
       => work'[call.path] = work[call.path]]_vars

\* C5: create_checkpoint on a path whose probe command fails returns the
\* file-copy checkpoint's record and runs no git command after the probe.
C5_FallbackCreate ==
    (call.op = "create" /\ ~GitLogOneline(call.path, history).ok)
        => /\ call.exc = ""
           /\ Len(call.recs) = 1
           /\ call.recs[1].id = FileId
           /\ copies[call.path] = work[call.path]
           /\ call.cmds = <<"log -1 --oneline">>

\* C6 as stated: with create_commits off a listing starts with the "--" record
\* exactly when the working file differs from HEAD's version; with it on, no
\* "--" record is listed.
SentinelFirst == call.recs # <<>> /\ call.recs[1].id = Sentinel
NoSentinel == \A i \in 1..Len(call.recs) : call.recs[i].id # Sentinel

C6_SentinelIffWorkDiffers ==
    Returned("list") =>
        IF create_commits THEN NoSentinel
        ELSE SentinelFirst <=> (work[call.path] # HeadOf(call.path))

\* C6, amended: ... exactly when the working file or the staged entry differs
\* from HEAD's version.
C6_SentinelIffWorkOrIndexDiffers ==
    Returned("list") =>
        IF create_commits THEN NoSentinel
        ELSE SentinelFirst <=>
                (work[call.path] # HeadOf(call.path) \/ index[call.path] # HeadOf(call.path))

\* A listing that starts with "--" for a file create_checkpoint staged and the
\* server then wrote back to HEAD's version.
C6_Witness ==
    /\ ~create_commits
    /\ Returned("list")
    /\ SentinelFirst
    /\ created[call.path] > 0
    /\ index[call.path] \in Contents
    /\ work[call.path] = HeadOf(call.path)

\* C7: the probe never raises, and answers whether its git command succeeded.
C7_ProbeNeverRaises ==
    call.op = "create" =>
        LET probe == _in_git(call.path, history)
        IN  /\ probe.exc = ""
            /\ probe.val <=> GitLogOneline(call.path, history).ok

\* C8: create, list, restore and rename run the probe first, and for a path
\* outside version control run nothing else and hand over to the file-copy store.
C8_ProbeFirst ==
    call.op \in {"create", "list", "restore", "rename"} =>
        /\ call.cmds # <<>>
        /\ call.cmds[1] = "log -1 --oneline"
        /\ ~inRepo[call.path] => (Len(call.cmds) = 1 /\ call.exc = "")

\* C9: a listing is no longer than the limit asked for (max_checkpoints when
\* none is given) and is ordered most recent first.
AskedLimit == IF call.limit = NoLimit THEN max_checkpoints ELSE call.limit[1]

C9_ListBounded ==
    Returned("list") =>
        /\ Len(call.recs) <= AskedLimit
        /\ \A i \in 1..(Len(call.recs) - 1) :
              call.recs[i].last_modified >= call.recs[i + 1].last_modified

\* C10: every commit stays where it is with the tree it has; the history grows
\* only by one commit at a time, only in create_checkpoint with create_commits
\* set, and only by a version of the path that differs from HEAD's.
C10_AppendOnly ==
    [][/\ Len(history') \in {Len(history), Len(history) + 1}
       /\ \A i \in 1..Len(history) : history'[i] = history[i]
       /\ history' # history =>
             /\ create_commits
             /\ call'.op = "create"
             /\ work[call'.path] # HeadOf(call'.path)
             /\ HeadTree(history')[call'.path] = work[call'.path]]_vars

\* An older commit was restored after create_checkpoint had added one.
C10_Witness ==
    /\ Len(history) > 1
    /\ Returned("restore")
    /\ call.id.kind = "hash"
    /\ call.id.n < Len(history)

====
